---- MODULE Spec2Model ----
(***************************************************************************)
(* Model of the storage providers of PolygonMigration/problems/storage:    *)
(* the flat object stores (GCS, Azure), the local filesystem provider and  *)
(* the Google Drive provider, each with upload and delete_by_prefix.       *)
(* A path is a sequence of one-character strings, so that the string       *)
(* operations of the code (strip, lstrip, split, startswith, os.path.join) *)
(* are computed as the code computes them.                                 *)
(***************************************************************************)
EXTENDS Integers, Sequences, FiniteSets, TLC

VARIABLES setting, backend, blobs, fs, drive, lastOp, outs, nops, faults, procs

vars == <<setting, backend, blobs, fs, drive, lastOp, outs, nops, faults, procs>>

(***************************************************************************)
(* Bounds                                                                  *)
(***************************************************************************)
\* number of sequential operations issued on one provider instance
MaxOps == 3

\* number of backend calls that fail in one run
MaxFaults == 1

\* number of callers that use one Drive provider at the same time
NProcs == 2

\* length of the longest STORAGE_PROVIDER setting drawn from the alphabet
MaxLen == 3

(***************************************************************************)
(* Strings                                                                 *)
(***************************************************************************)
SLASH == "/"

\* str.lstrip('/')
RECURSIVE lstrip(_)
lstrip(s) == IF s # <<>> /\ Head(s) = SLASH THEN lstrip(Tail(s)) ELSE s

\* str.rstrip('/')
RECURSIVE rstrip(_)
rstrip(s) ==
  IF s # <<>> /\ s[Len(s)] = SLASH THEN rstrip(SubSeq(s, 1, Len(s) - 1)) ELSE s

\* str.strip('/')
strip(s) == rstrip(lstrip(s))

\* index of the first '/' of s, 0 if there is none (str.find)
RECURSIVE find(_, _)
find(s, i) ==
  IF i > Len(s) THEN 0 ELSE IF s[i] = SLASH THEN i ELSE find(s, i + 1)

\* index of the last '/' of s, 0 if there is none (str.rfind + 1)
RECURSIVE rfind(_, _)
rfind(s, i) ==
  IF i = 0 THEN 0 ELSE IF s[i] = SLASH THEN i ELSE rfind(s, i - 1)

\* str.split('/'): every '/' separates, empty parts are kept, "" gives [""]
RECURSIVE split(_)
split(s) ==
  LET i == find(s, 1)
  IN  IF i = 0 THEN << s >>
      ELSE << SubSeq(s, 1, i - 1) >> \o split(SubSeq(s, i + 1, Len(s)))

\* str.startswith, the match of a server-side prefix listing
startswith(s, pre) == Len(pre) <= Len(s) /\ SubSeq(s, 1, Len(pre)) = pre

\* code points of the characters used, the order of an object listing
ord(ch) ==
  CASE ch = "." -> 46 [] ch = "/" -> 47 [] ch = "1" -> 49 [] ch = "2" -> 50
    [] ch = "3" -> 51 [] ch = "a" -> 97 [] ch = "b" -> 98 [] ch = "c" -> 99
    [] ch = "m" -> 109 [] ch = "n" -> 110 [] OTHER -> 120

\* s < t in the lexicographic order of object names
RECURSIVE strless(_, _)
strless(s, t) ==
  IF t = <<>> THEN FALSE
  ELSE IF s = <<>> THEN TRUE
  ELSE IF Head(s) # Head(t) THEN ord(Head(s)) < ord(Head(t))
  ELSE strless(Tail(s), Tail(t))

\* the names of a set of objects in listing order
RECURSIVE sorted(_)
sorted(S) ==
  IF S = {} THEN <<>>
  ELSE LET m == CHOOSE x \in S : \A y \in S \ {x} : strless(x, y)
       IN  << m >> \o sorted(S \ {m})

(***************************************************************************)
(* Inputs                                                                  *)
(***************************************************************************)
p_ab1   == << "a", "/", "b", "/", "1" >>
p_ab2   == << "a", "/", "b", "/", "2" >>
p_abc3  == << "a", "/", "b", "/", "c", "/", "3" >>
p_sab1  == << "/", "a", "/", "/", "b", "/", "1" >>
p_abc1  == << "a", "/", "b", "c", "/", "1" >>
p_ab    == << "a", "/", "b" >>
p_abs   == << "a", "/", "b", "/" >>
p_a     == << "a" >>
p_abcs  == << "a", "/", "b", "/", "c", "/" >>
p_np    == << "n", "/", "n", "/" >>
p_empty == << >>
p_a1    == << "a", "/", "1" >>
p_a2    == << "a", "/", "2" >>

UploadPaths == { p_ab1, p_ab2, p_abc3, p_sab1, p_abc1, p_ab, p_empty }
Prefixes    == { p_ab, p_abs, p_ab1, p_a, p_abcs, p_np, p_abc1 }
Contents    == { "", "d1" }
Backends    == { "LOCAL", "GCS", "AZURE", "GDRIVE" }

\* the outcome of one operation: the store it leaves, whether it returned
\* without raising (ok), whether a backend call failed, and what it issued
Outcome(st, ok, failed, calls, creates, deletes) ==
  [ st |-> st, ok |-> ok, failed |-> failed, calls |-> calls,
    creates |-> creates, deletes |-> deletes ]

(***************************************************************************)
(* Flat object stores: GoogleCloudStorageProvider, AzureStorageProvider    *)
(* blobs maps an object name to its content                                *)
(***************************************************************************)
\* put_blob without overwrite: an existing object keeps its content
put_blob_keep(bl, key, content) ==
  [ k \in DOMAIN bl \cup {key} |-> IF k \in DOMAIN bl THEN bl[k] ELSE content ]

\* blob.upload_from_string / blob_client.upload_blob(overwrite=True)
put_blob(bl, key, content) ==
  [ k \in DOMAIN bl \cup {key} |-> IF k = key THEN content ELSE bl[k] ]

\* an object name has at least one character: the service refuses the empty one
put_raises(key) == key = <<>>

\* list_blobs with the prefix argument left out: every object is listed
list_blobs_all(bl, prefix) == sorted(DOMAIN bl)

\* list_blobs(prefix=...) / list_blobs(name_starts_with=...)
list_blobs(bl, prefix) == sorted({ k \in DOMAIN bl : startswith(k, prefix) })

\* a batch that goes on after a failed request: the failing blob stays, the
\* rest of the batch is deleted, and the failure is raised at the end
delete_blobs_skip(bl, names, calls, failAt, deletes) ==
  IF names = <<>> THEN Outcome(bl, TRUE, FALSE, calls, 0, deletes)
  ELSE LET rest == { names[i] : i \in 2..Len(names) }
       IN  Outcome([ k \in DOMAIN bl \ rest |-> bl[k] ], failAt = 0, failAt > 0,
                   calls + Len(names), 0, deletes + Len(names))

\* one delete request per listed blob, in listing order; the first failing
\* request raises and the rest of the batch is not attempted
RECURSIVE delete_blobs(_, _, _, _, _)
delete_blobs(bl, names, calls, failAt, deletes) ==
  IF names = <<>> THEN Outcome(bl, TRUE, FALSE, calls, 0, deletes)
  ELSE IF calls + 1 = failAt
       THEN Outcome(bl, FALSE, TRUE, calls + 1, 0, deletes + 1)
  ELSE delete_blobs([ k \in DOMAIN bl \ {Head(names)} |-> bl[k] ],
                    Tail(names), calls + 1, failAt, deletes + 1)

\* GoogleCloudStorageProvider.upload
gcs_upload(bl, path, content, failAt) ==
  LET blob_path == lstrip(path)
  IN  IF failAt = 1 \/ put_raises(blob_path)
      THEN Outcome(bl, FALSE, TRUE, 1, 0, 0)
      ELSE Outcome(put_blob(bl, blob_path, content), TRUE, FALSE, 1, 0, 0)

\* GoogleCloudStorageProvider.delete_by_prefix
gcs_delete_by_prefix(bl, prefix, failAt) ==
  LET clean_prefix == lstrip(prefix)
      listed       == list_blobs(bl, clean_prefix)
  IN  IF failAt = 1 THEN Outcome(bl, FALSE, TRUE, 1, 0, 0)
      ELSE IF listed = <<>> THEN Outcome(bl, TRUE, FALSE, 1, 0, 0)
      ELSE delete_blobs(bl, listed, 1, failAt, 0)

\* AzureStorageProvider.upload
azure_upload(bl, path, content, failAt) ==
  IF failAt = 1 \/ put_raises(path) THEN Outcome(bl, FALSE, TRUE, 1, 0, 0)
  ELSE Outcome(put_blob(bl, path, content), TRUE, FALSE, 1, 0, 0)

\* AzureStorageProvider.delete_by_prefix
azure_delete_by_prefix(bl, prefix, failAt) ==
  IF failAt = 1 THEN Outcome(bl, FALSE, TRUE, 1, 0, 0)
  ELSE delete_blobs(bl, list_blobs(bl, prefix), 1, failAt, 0)

(***************************************************************************)
(* Local filesystem: LocalStorageProvider                                  *)
(* fs maps the absolute path of an entry (the sequence of its components)  *)
(* to [dir, content]; the parent of every entry is a directory of fs       *)
(***************************************************************************)
\* self.base_path = os.path.join(settings.BASE_DIR, 'media'), here "/m"
base_path == << "/", "m" >>

\* os.path.join(a, p): an absolute p discards a
join(a, p) ==
  IF p # <<>> /\ Head(p) = SLASH THEN p
  ELSE IF a = <<>> \/ a[Len(a)] = SLASH THEN a \o p
  ELSE a \o << SLASH >> \o p

\* os.path.dirname(p)
dirname(p) ==
  LET head == SubSeq(p, 1, rfind(p, Len(p)))
  IN  IF head # <<>> /\ lstrip(head) # <<>> THEN rstrip(head) ELSE head

NonEmpty(seg) == seg # <<>>

DOTDOT == << ".", "." >>

Parent(c) == SubSeq(c, 1, Len(c) - 1)

\* ".." steps to the parent of the directory reached so far ("/.." is "/")
RECURSIVE resolve(_, _)
resolve(segs, acc) ==
  IF segs = <<>> THEN acc
  ELSE resolve(Tail(segs), IF Head(segs) = DOTDOT THEN Parent(acc)
                           ELSE Append(acc, Head(segs)))

Segments(p) == SelectSeq(split(p), NonEmpty)

\* the components the operating system resolves an absolute path to
Components(p) ==
  LET segs == Segments(p)
  IN  IF \E i \in 1..Len(segs) : segs[i] = DOTDOT THEN resolve(segs, <<>>)
      ELSE segs

\* the operating system follows a ".." only out of an existing directory
Traversable(f, p) ==
  LET segs == Segments(p)
  IN  \A i \in 1..Len(segs) :
        segs[i] = DOTDOT =>
          LET d == resolve(SubSeq(segs, 1, i - 1), <<>>)
          IN  d \in DOMAIN f /\ f[d].dir

TrailingSlash(p) == p # <<>> /\ p[Len(p)] = SLASH

DirEntry == [ dir |-> TRUE, content |-> "" ]
FileEntry(content) == [ dir |-> FALSE, content |-> content ]

\* os.path.exists
exists(f, p) ==
  LET c == Components(p)
  IN  Traversable(f, p) /\ c \in DOMAIN f /\ (TrailingSlash(p) => f[c].dir)

\* os.path.isdir
isdir(f, p) ==
  LET c == Components(p)
  IN  Traversable(f, p) /\ c \in DOMAIN f /\ f[c].dir

\* os.path.isfile
isfile(f, p) ==
  LET c == Components(p)
  IN  Traversable(f, p) /\ c \in DOMAIN f /\ ~f[c].dir /\ ~TrailingSlash(p)

\* os.makedirs(p) raises when p exists, when a component of p is a file or
\* when p steps through ".." out of a directory that was missing
makedirs_raises(f, p) ==
  LET c == Components(p)
  IN  \/ ~Traversable(f, p)
      \/ c \in DOMAIN f
      \/ \E i \in 1..Len(c) : SubSeq(c, 1, i) \in DOMAIN f /\ ~f[SubSeq(c, 1, i)].dir

\* os.mkdir of every missing component of c, outermost first
mkdirs(f, c) ==
  LET new == { SubSeq(c, 1, i) : i \in 1..Len(c) } \ DOMAIN f
  IN  [ k \in DOMAIN f \cup new |-> IF k \in new THEN DirEntry ELSE f[k] ]

\* os.makedirs(p): every missing component of p becomes a directory
makedirs(f, p) == mkdirs(f, Components(p))

\* what an os.makedirs(p) that raises leaves behind: it makes the head of p
\* before it tries the tail, so the directories in front of a ".." that led
\* out of a missing directory are there when mkdir of the ".." raises
makedirs_raised(f, p) ==
  LET segs == Segments(p)
      bad  == { i \in 1..Len(segs) :
                  /\ segs[i] = DOTDOT
                  /\ LET d == resolve(SubSeq(segs, 1, i - 1), <<>>)
                     IN  ~(d \in DOMAIN f /\ f[d].dir) }
  IN  IF bad = {} THEN f
      ELSE LET i == CHOOSE i \in bad : \A j \in bad : i <= j
               c == resolve(SubSeq(segs, 1, i - 1), <<>>)
           IN  IF \E n \in 1..Len(c) :
                    SubSeq(c, 1, n) \in DOMAIN f /\ ~f[SubSeq(c, 1, n)].dir
               THEN f
               ELSE mkdirs(f, c)

\* open(p, 'wb') raises when p names a directory or has no directory to be in
open_raises(f, p) ==
  LET c == Components(p)
  IN  \/ ~Traversable(f, p)
      \/ c = <<>>
      \/ TrailingSlash(p)
      \/ c \in DOMAIN f /\ f[c].dir
      \/ Parent(c) \notin DOMAIN f
      \/ ~f[Parent(c)].dir

\* with open(p, 'wb') as f: f.write(content)
write_file(f, p, content) ==
  LET c == Components(p)
  IN  [ k \in DOMAIN f \cup {c} |-> IF k = c THEN FileEntry(content) ELSE f[k] ]

IsPrefixOf(c, k) == Len(c) <= Len(k) /\ SubSeq(k, 1, Len(c)) = c

\* shutil.rmtree(p): p and everything below it; the root "/" itself stays
rmtree(f, p) ==
  LET c == Components(p)
  IN  [ k \in { k \in DOMAIN f : k = <<>> \/ ~IsPrefixOf(c, k) } |-> f[k] ]

\* os.remove(p)
remove(f, p) == [ k \in DOMAIN f \ {Components(p)} |-> f[k] ]

\* LocalStorageProvider.upload
local_upload(f, path, content, failAt) ==
  LET full_path == join(base_path, path)
      directory == dirname(full_path)
      mk        == ~exists(f, directory)
      n1        == IF mk THEN 1 ELSE 0
  IN  IF mk /\ failAt = 1
      THEN Outcome(f, FALSE, TRUE, 1, 1, 0)
      ELSE IF mk /\ makedirs_raises(f, directory)
      THEN Outcome(makedirs_raised(f, directory), FALSE, TRUE, 1, 1, 0)
      ELSE LET f1 == IF mk THEN makedirs(f, directory) ELSE f
           IN  IF failAt = n1 + 1 \/ open_raises(f1, full_path)
               THEN Outcome(f1, FALSE, TRUE, n1 + 1, n1, 0)
               ELSE Outcome(write_file(f1, full_path, content),
                            TRUE, FALSE, n1 + 1, n1, 0)

\* LocalStorageProvider.delete_by_prefix: the except clause logs and returns
local_delete_by_prefix(f, prefix, failAt) ==
  LET target_path == join(base_path, prefix)
  IN  IF isdir(f, target_path)
      THEN IF failAt = 1 THEN Outcome(f, TRUE, TRUE, 1, 0, 1)
           ELSE Outcome(rmtree(f, target_path), TRUE,
                        Components(target_path) = <<>>, 1, 0, 1)
      ELSE IF isfile(f, target_path)
      THEN IF failAt = 1 THEN Outcome(f, TRUE, TRUE, 1, 0, 1)
           ELSE Outcome(remove(f, target_path), TRUE, FALSE, 1, 0, 1)
      ELSE Outcome(f, TRUE, FALSE, 0, 0, 0)

(***************************************************************************)
(* Google Drive: GoogleDriveStorageProvider                                *)
(* drive is [nodes, nextId]; a node is [id, name, parent, folder, content] *)
(* and the service gives every created file or folder a fresh id           *)
(***************************************************************************)
\* self.root_folder_id = settings.GOOGLE_DRIVE_FOLDER_ID
root_folder_id == 0

Node(id, name, parent, folder, content) ==
  [ id |-> id, name |-> name, parent |-> parent, folder |-> folder,
    content |-> content ]

\* files().list(q="name=... and 'parent' in parents and mimeType=folder")
list_folders(d, name, parent) ==
  { n \in d.nodes : n.name = name /\ n.parent = parent /\ n.folder }

\* files().list(q="name=... and 'parent' in parents"): files and folders
list_files(d, name, parent) ==
  { n \in d.nodes : n.name = name /\ n.parent = parent }

\* files().create(body={name, parents, [mimeType]})
create(d, name, parent, folder, content) ==
  [ nodes  |-> d.nodes \cup { Node(d.nextId, name, parent, folder, content) },
    nextId |-> d.nextId + 1 ]

\* an update that replaces the file by a new one: the content under a new id
update_recreate(d, id, content) ==
  LET old == CHOOSE n \in d.nodes : n.id = id
  IN  [ nodes  |-> (d.nodes \ {old})
                   \cup { [ old EXCEPT !.id = d.nextId, !.content = content ] },
        nextId |-> d.nextId + 1 ]

\* an update that reaches every file of the same name under the same parent
update_siblings(d, id, content) ==
  LET old == CHOOSE n \in d.nodes : n.id = id
  IN  [ nodes  |-> { IF n.name = old.name /\ n.parent = old.parent
                     THEN [ n EXCEPT !.content = content ] ELSE n :
                     n \in d.nodes },
        nextId |-> d.nextId ]

\* files().update(fileId, media_body): the content is replaced, the id stays
update(d, id, content) ==
  [ nodes  |-> { IF n.id = id THEN [ n EXCEPT !.content = content ] ELSE n :
                 n \in d.nodes },
    nextId |-> d.nextId ]

\* the ids of the nodes in ids and of everything below them
RECURSIVE subtree(_, _)
subtree(d, ids) ==
  LET more == ids \cup { n.id : n \in { m \in d.nodes : m.parent \in ids } }
  IN  IF more = ids THEN ids ELSE subtree(d, more)

\* files().delete(fileId): a folder goes with everything below it
delete(d, id) ==
  [ nodes  |-> { n \in d.nodes : n.id \notin subtree(d, {id}) },
    nextId |-> d.nextId ]

\* the state of a walk: the store, the folder reached, the calls issued, the
\* folders created, and whether a call failed
Walk(d, parent, calls, creates, failed) ==
  [ st |-> d, parent |-> parent, calls |-> calls, creates |-> creates,
    failed |-> failed ]

\* _get_or_create_folder with the result of the lookup ignored: it creates
_always_create_folder(d, folder_name, parent_id, calls, creates, failAt) ==
  IF calls + 1 = failAt
  THEN { Walk(d, parent_id, calls + 1, creates, TRUE) }
  ELSE IF calls + 2 = failAt
  THEN { Walk(d, parent_id, calls + 2, creates + 1, TRUE) }
  ELSE { Walk(create(d, folder_name, parent_id, TRUE, ""), d.nextId,
              calls + 2, creates + 1, FALSE) }

\* GoogleDriveStorageProvider._get_or_create_folder, after `calls` calls.
\* files[0] is any of the matches: the listing states no order.
_get_or_create_folder(d, folder_name, parent_id, calls, creates, failAt) ==
  LET files == list_folders(d, folder_name, parent_id)
  IN  IF calls + 1 = failAt
      THEN { Walk(d, parent_id, calls + 1, creates, TRUE) }
      ELSE IF files # {}
      THEN { Walk(d, n.id, calls + 1, creates, FALSE) : n \in files }
      ELSE IF calls + 2 = failAt
      THEN { Walk(d, parent_id, calls + 2, creates + 1, TRUE) }
      ELSE { Walk(create(d, folder_name, parent_id, TRUE, ""), d.nextId,
                  calls + 2, creates + 1, FALSE) }

\* the loop of GoogleDriveStorageProvider._resolve_path_to_folder
RECURSIVE resolve_folders(_, _, _)
resolve_folders(w, folder_path, failAt) ==
  IF w.failed \/ folder_path = <<>> THEN { w }
  ELSE UNION { resolve_folders(w1, Tail(folder_path), failAt) :
               w1 \in _get_or_create_folder(w.st, Head(folder_path), w.parent,
                                            w.calls, w.creates, failAt) }

\* GoogleDriveStorageProvider._resolve_path_to_folder
_resolve_path_to_folder(d, path, failAt) ==
  LET parts == split(strip(path))
  IN  resolve_folders(Walk(d, root_folder_id, 0, 0, FALSE),
                      SubSeq(parts, 1, Len(parts) - 1), failAt)

\* the leaf step with the update branch lost: the leaf is always created
upload_leaf_create(w, file_name, content, failAt) ==
  IF w.failed THEN { Outcome(w.st, FALSE, TRUE, w.calls, w.creates, 0) }
  ELSE IF w.calls + 1 = failAt
  THEN { Outcome(w.st, FALSE, TRUE, w.calls + 1, w.creates, 0) }
  ELSE IF w.calls + 2 = failAt
  THEN { Outcome(w.st, FALSE, TRUE, w.calls + 2, w.creates, 0) }
  ELSE { Outcome(create(w.st, file_name, w.parent, FALSE, content), TRUE,
                 FALSE, w.calls + 2, w.creates, 0) }

\* the leaf step of GoogleDriveStorageProvider.upload under the resolved
\* parent. The service refuses media content for a folder.
upload_leaf(w, file_name, content, failAt) ==
  LET files == list_files(w.st, file_name, w.parent)
  IN  IF w.failed THEN { Outcome(w.st, FALSE, TRUE, w.calls, w.creates, 0) }
      ELSE IF w.calls + 1 = failAt
      THEN { Outcome(w.st, FALSE, TRUE, w.calls + 1, w.creates, 0) }
      ELSE IF files # {}
      THEN { IF w.calls + 2 = failAt \/ n.folder
             THEN Outcome(w.st, FALSE, TRUE, w.calls + 2, w.creates, 0)
             ELSE Outcome(update(w.st, n.id, content), TRUE, FALSE,
                          w.calls + 2, w.creates, 0) : n \in files }
      ELSE IF w.calls + 2 = failAt
      THEN { Outcome(w.st, FALSE, TRUE, w.calls + 2, w.creates, 0) }
      ELSE { Outcome(create(w.st, file_name, w.parent, FALSE, content), TRUE,
                     FALSE, w.calls + 2, w.creates, 0) }

\* GoogleDriveStorageProvider.upload: the set of its possible outcomes
gdrive_upload(d, path, content, failAt) ==
  LET parts     == split(strip(path))
      file_name == parts[Len(parts)]
  IN  UNION { upload_leaf(w, file_name, content, failAt) :
              w \in _resolve_path_to_folder(d, path, failAt) }

\* the lookup loop of GoogleDriveStorageProvider.delete_by_prefix: the walk
\* stops, with found = FALSE, at the first part that no folder bears
RECURSIVE find_target(_, _, _, _, _)
find_target(d, parts, current_parent_id, calls, failAt) ==
  LET files == list_folders(d, Head(parts), current_parent_id)
  IN  IF calls + 1 = failAt
      THEN { [ found |-> FALSE, failed |-> TRUE, id |-> current_parent_id,
               calls |-> calls + 1 ] }
      ELSE IF files = {}
      THEN { [ found |-> FALSE, failed |-> FALSE, id |-> current_parent_id,
               calls |-> calls + 1 ] }
      ELSE IF Len(parts) = 1
      THEN { [ found |-> TRUE, failed |-> FALSE, id |-> n.id,
               calls |-> calls + 1 ] : n \in files }
      ELSE UNION { find_target(d, Tail(parts), n.id, calls + 1, failAt) :
                   n \in files }

\* delete_by_prefix with the walk of upload: a missing folder is created
gdrive_delete_resolving(d, prefix, failAt) ==
  LET parts == split(strip(prefix))
  IN  { IF w.failed THEN Outcome(w.st, FALSE, TRUE, w.calls, w.creates, 0)
        ELSE IF w.creates > 0
        THEN Outcome(w.st, TRUE, FALSE, w.calls, w.creates, 0)
        ELSE IF w.calls + 1 = failAt
        THEN Outcome(w.st, FALSE, TRUE, w.calls + 1, 0, 1)
        ELSE Outcome(delete(w.st, w.parent), TRUE, FALSE, w.calls + 1, 0, 1) :
        w \in resolve_folders(Walk(d, root_folder_id, 0, 0, FALSE), parts,
                              failAt) }

\* GoogleDriveStorageProvider.delete_by_prefix: the set of its outcomes
gdrive_delete_by_prefix(d, prefix, failAt) ==
  LET folder_path == strip(prefix)
      parts       == split(folder_path)
  IN  { IF t.failed THEN Outcome(d, FALSE, TRUE, t.calls, 0, 0)
        ELSE IF ~t.found THEN Outcome(d, TRUE, FALSE, t.calls, 0, 0)
        ELSE IF t.calls + 1 = failAt
        THEN Outcome(d, FALSE, TRUE, t.calls + 1, 0, 1)
        ELSE Outcome(delete(d, t.id), TRUE, FALSE, t.calls + 1, 0, 1) :
        t \in find_target(d, parts, root_folder_id, 0, failAt) }

(***************************************************************************)
(* What a caller can observe of the store                                  *)
(***************************************************************************)
\* the Drive folders a path's parts lead to, every same-named match followed
RECURSIVE folders_at(_, _, _)
folders_at(d, parts, parents) ==
  IF parts = <<>> THEN parents
  ELSE folders_at(d, Tail(parts),
                  { n.id : n \in { m \in d.nodes : m.folder /\ m.name = Head(parts)
                                                   /\ m.parent \in parents } })

\* the Drive nodes, files and folders, that bear the names of parts in turn
nodes_at(d, parts) ==
  { n \in d.nodes : n.name = parts[Len(parts)]
                    /\ n.parent \in folders_at(d, Parent(parts), {root_folder_id}) }

\* the records a read of path finds, as [id, content], on the given backend
RecordsIn(b, bl, f, d, path) ==
  CASE b = "GCS" ->
         IF lstrip(path) \in DOMAIN bl
         THEN { [ id |-> lstrip(path), content |-> bl[lstrip(path)] ] } ELSE {}
    [] b = "AZURE" ->
         IF path \in DOMAIN bl
         THEN { [ id |-> path, content |-> bl[path] ] } ELSE {}
    [] b = "LOCAL" ->
         LET full_path == join(base_path, path)
         IN  IF isfile(f, full_path)
             THEN { [ id |-> Components(full_path),
                      content |-> f[Components(full_path)].content ] }
             ELSE {}
    [] b = "GDRIVE" ->
         { [ id |-> n.id, content |-> n.content ] :
           n \in { m \in nodes_at(d, split(strip(path))) : ~m.folder } }

RecordsAt(path) == RecordsIn(backend, blobs, fs, drive, path)

\* the contents a read of path returns
Read(path) == { r.content : r \in RecordsAt(path) }

Tree == backend \in { "LOCAL", "GDRIVE" }

(***************************************************************************)
(* Factory: get_storage_provider. A STORAGE_PROVIDER setting is absent or  *)
(* a string, a sequence of characters; the credentials and locations the   *)
(* constructors read are taken to be configured                            *)
(***************************************************************************)
Lower == << "a", "b", "c", "d", "e", "f", "g", "h", "i", "j", "k", "l", "m",
            "n", "o", "p", "q", "r", "s", "t", "u", "v", "w", "x", "y", "z" >>
Upper == << "A", "B", "C", "D", "E", "F", "G", "H", "I", "J", "K", "L", "M",
            "N", "O", "P", "Q", "R", "S", "T", "U", "V", "W", "X", "Y", "Z" >>

upper_char(ch) ==
  IF \E i \in DOMAIN Lower : Lower[i] = ch
  THEN Upper[CHOOSE i \in DOMAIN Lower : Lower[i] = ch]
  ELSE ch

\* the factory without the call of upper(): the setting is compared as it is
upper_none(s) == s

\* str.upper()
upper(s) == [ i \in 1..Len(s) |-> upper_char(s[i]) ]

Unset    == [ set |-> FALSE, value |-> <<>> ]
Set(v)   == [ set |-> TRUE, value |-> v ]

\* getattr(settings, 'STORAGE_PROVIDER', default)
getattr(s, default) == IF s.set THEN s.value ELSE default

NameAZURE  == << "A", "Z", "U", "R", "E" >>
NameGDRIVE == << "G", "D", "R", "I", "V", "E" >>
NameGCS    == << "G", "C", "S" >>
NameLOCAL  == << "L", "O", "C", "A", "L" >>

\* get_storage_provider: the class of the one provider it constructs
get_storage_provider(s) ==
  LET provider_type == upper(getattr(s, NameLOCAL))
  IN  IF provider_type = NameAZURE THEN "AZURE"
      ELSE IF provider_type = NameGDRIVE THEN "GDRIVE"
      ELSE IF provider_type = NameGCS THEN "GCS"
      ELSE IF provider_type = NameLOCAL THEN "LOCAL"
      ELSE "LOCAL"

\* LocalStorageProvider.__init__: base_path is created when it is missing
LocalStorageProvider(f) ==
  IF ~exists(f, base_path) THEN makedirs(f, base_path) ELSE f

\* the strings of at most n characters of Alphabet
Alphabet == { "g", "c", "s", "G", "C", "S", "3" }

RECURSIVE Strs(_)
Strs(n) ==
  IF n = 0 THEN { <<>> }
  ELSE Strs(n - 1) \cup { Append(t, ch) : t \in Strs(n - 1), ch \in Alphabet }

Settings ==
  { Unset } \cup { Set(v) : v \in Strs(MaxLen) }
  \cup { Set(v) : v \in { NameLOCAL, << "l", "o", "c", "a", "l" >>,
                          << "L", "o", "c", "a", "l" >>,
                          NameAZURE, << "a", "z", "u", "r", "e" >>,
                          << "A", "z", "u", "r", "E" >>,
                          NameGDRIVE, << "g", "d", "r", "i", "v", "e" >>,
                          << "G", "D", "r", "i", "v", "e" >>,
                          << "l", "o", "c", "a", "l", "e" >>,
                          << "s", "3" >> } }

(***************************************************************************)
(* The provider, used by one caller at a time                              *)
(***************************************************************************)
NoOp ==
  [ op |-> "none", path |-> <<>>, content |-> "", ok |-> TRUE, failed |-> FALSE,
    failAt |-> 0, calls |-> 0, creates |-> 0, deletes |-> 0, before |-> {} ]

Done(kind, path, content, failAt, r) ==
  [ op |-> kind, path |-> path, content |-> content, ok |-> r.ok,
    failed |-> r.failed, failAt |-> failAt, calls |-> r.calls,
    creates |-> r.creates, deletes |-> r.deletes, before |-> Read(path) ]

NoProcs == [ p \in {} |-> 0 ]

NoOuts == [ b \in {} |-> TRUE ]

\* get_storage_provider() constructs one provider; LocalStorageProvider's
\* constructor makes sure base_path exists
Init ==
  /\ setting \in { Set(NameAZURE), Set(NameGDRIVE), Set(NameGCS), Set(NameLOCAL) }
  /\ backend = get_storage_provider(setting)
  /\ blobs = [ k \in {} |-> "" ]
  /\ fs = [ k \in { <<>>, Components(base_path) } |-> DirEntry ]
  /\ drive = [ nodes |-> {}, nextId |-> root_folder_id + 1 ]
  /\ lastOp = NoOp
  /\ outs = NoOuts
  /\ nops = 0
  /\ faults = 0
  /\ procs = NoProcs

\* a failure is injected only into a call the operation issues: one of the
\* calls of its failure-free run, 0 for no failure
FailPoints(r0) == IF faults < MaxFaults THEN 0..r0.calls ELSE {0}

Max(S) == CHOOSE x \in S : \A y \in S : y <= x

FailPointsOf(R0) ==
  IF faults < MaxFaults THEN 0..Max({ r.calls : r \in R0 }) ELSE {0}

Injected(failAt, r) == failAt <= r.calls /\ (failAt > 0 => r.failed)

GCSUpload ==
  /\ backend = "GCS" /\ nops < MaxOps
  /\ \E path \in UploadPaths, content \in Contents :
     \E failAt \in FailPoints(gcs_upload(blobs, path, content, 0)) :
       LET r == gcs_upload(blobs, path, content, failAt)
       IN  /\ Injected(failAt, r)
           /\ blobs' = r.st
           /\ lastOp' = Done("upload", path, content, failAt, r)
           /\ faults' = faults + (IF failAt > 0 THEN 1 ELSE 0)
  /\ nops' = nops + 1
  /\ UNCHANGED << backend, fs, drive, procs, setting, outs >>

GCSDeleteByPrefix ==
  /\ backend = "GCS" /\ nops < MaxOps
  /\ \E prefix \in Prefixes :
     \E failAt \in FailPoints(gcs_delete_by_prefix(blobs, prefix, 0)) :
       LET r == gcs_delete_by_prefix(blobs, prefix, failAt)
       IN  /\ Injected(failAt, r)
           /\ blobs' = r.st
           /\ lastOp' = Done("delete", prefix, "", failAt, r)
           /\ faults' = faults + (IF failAt > 0 THEN 1 ELSE 0)
  /\ nops' = nops + 1
  /\ UNCHANGED << backend, fs, drive, procs, setting, outs >>

AzureUpload ==
  /\ backend = "AZURE" /\ nops < MaxOps
  /\ \E path \in UploadPaths, content \in Contents :
     \E failAt \in FailPoints(azure_upload(blobs, path, content, 0)) :
       LET r == azure_upload(blobs, path, content, failAt)
       IN  /\ Injected(failAt, r)
           /\ blobs' = r.st
           /\ lastOp' = Done("upload", path, content, failAt, r)
           /\ faults' = faults + (IF failAt > 0 THEN 1 ELSE 0)
  /\ nops' = nops + 1
  /\ UNCHANGED << backend, fs, drive, procs, setting, outs >>

AzureDeleteByPrefix ==
  /\ backend = "AZURE" /\ nops < MaxOps
  /\ \E prefix \in Prefixes :
     \E failAt \in FailPoints(azure_delete_by_prefix(blobs, prefix, 0)) :
       LET r == azure_delete_by_prefix(blobs, prefix, failAt)
       IN  /\ Injected(failAt, r)
           /\ blobs' = r.st
           /\ lastOp' = Done("delete", prefix, "", failAt, r)
           /\ faults' = faults + (IF failAt > 0 THEN 1 ELSE 0)
  /\ nops' = nops + 1
  /\ UNCHANGED << backend, fs, drive, procs, setting, outs >>

LocalUpload ==
  /\ backend = "LOCAL" /\ nops < MaxOps
  /\ \E path \in UploadPaths, content \in Contents :
     \E failAt \in FailPoints(local_upload(fs, path, content, 0)) :
       LET r == local_upload(fs, path, content, failAt)
       IN  /\ Injected(failAt, r)
           /\ fs' = r.st
           /\ lastOp' = Done("upload", path, content, failAt, r)
           /\ faults' = faults + (IF failAt > 0 THEN 1 ELSE 0)
  /\ nops' = nops + 1
  /\ UNCHANGED << backend, blobs, drive, procs, setting, outs >>

LocalDeleteByPrefix ==
  /\ backend = "LOCAL" /\ nops < MaxOps
  /\ \E prefix \in Prefixes :
     \E failAt \in FailPoints(local_delete_by_prefix(fs, prefix, 0)) :
       LET r == local_delete_by_prefix(fs, prefix, failAt)
       IN  /\ Injected(failAt, r)
           /\ fs' = r.st
           /\ lastOp' = Done("delete", prefix, "", failAt, r)
           /\ faults' = faults + (IF failAt > 0 THEN 1 ELSE 0)
  /\ nops' = nops + 1
  /\ UNCHANGED << backend, blobs, drive, procs, setting, outs >>

GDriveUpload ==
  /\ backend = "GDRIVE" /\ nops < MaxOps
  /\ \E path \in UploadPaths, content \in Contents :
     \E failAt \in FailPointsOf(gdrive_upload(drive, path, content, 0)) :
       \E r \in gdrive_upload(drive, path, content, failAt) :
           /\ Injected(failAt, r)
           /\ drive' = r.st
           /\ lastOp' = Done("upload", path, content, failAt, r)
           /\ faults' = faults + (IF failAt > 0 THEN 1 ELSE 0)
  /\ nops' = nops + 1
  /\ UNCHANGED << backend, blobs, fs, procs, setting, outs >>

GDriveDeleteByPrefix ==
  /\ backend = "GDRIVE" /\ nops < MaxOps
  /\ \E prefix \in Prefixes :
     \E failAt \in FailPointsOf(gdrive_delete_by_prefix(drive, prefix, 0)) :
       \E r \in gdrive_delete_by_prefix(drive, prefix, failAt) :
           /\ Injected(failAt, r)
           /\ drive' = r.st
           /\ lastOp' = Done("delete", prefix, "", failAt, r)
           /\ faults' = faults + (IF failAt > 0 THEN 1 ELSE 0)
  /\ nops' = nops + 1
  /\ UNCHANGED << backend, blobs, fs, procs, setting, outs >>

Next ==
  \/ GCSUpload \/ GCSDeleteByPrefix
  \/ AzureUpload \/ AzureDeleteByPrefix
  \/ LocalUpload \/ LocalDeleteByPrefix
  \/ GDriveUpload \/ GDriveDeleteByPrefix

Spec == Init /\ [][Next]_vars

(***************************************************************************)
(* LocalStorageProvider alone, given arguments that point out of base_path: *)
(* an absolute path, a ".." segment, the empty string. The filesystem holds *)
(* a file "/1" that is not the provider's                                   *)
(***************************************************************************)
p_s1    == << "/", "1" >>
p_dd1   == << ".", ".", "/", "1" >>
p_slash == << "/" >>
p_dd    == << ".", "." >>

RootPaths    == { p_a1, p_empty, p_s1, p_dd1 }
RootPrefixes == { p_a, p_empty, p_slash, p_dd }

InitRoot ==
  /\ setting = Set(NameLOCAL)
  /\ backend = get_storage_provider(setting)
  /\ blobs = [ k \in {} |-> "" ]
  /\ fs = LocalStorageProvider(
            [ k \in { <<>>, Components(p_s1) } |->
                IF k = <<>> THEN DirEntry ELSE FileEntry("d2") ])
  /\ drive = [ nodes |-> {}, nextId |-> root_folder_id + 1 ]
  /\ lastOp = NoOp
  /\ outs = NoOuts
  /\ nops = 0
  /\ faults = 0
  /\ procs = NoProcs

RootUpload ==
  /\ nops < MaxOps
  /\ \E path \in RootPaths, content \in Contents :
       LET r == local_upload(fs, path, content, 0)
       IN  /\ fs' = r.st
           /\ lastOp' = Done("upload", path, content, 0, r)
  /\ nops' = nops + 1
  /\ UNCHANGED << setting, backend, blobs, drive, outs, faults, procs >>

RootDeleteByPrefix ==
  /\ nops < MaxOps
  /\ \E prefix \in RootPrefixes :
       LET r == local_delete_by_prefix(fs, prefix, 0)
       IN  /\ fs' = r.st
           /\ lastOp' = Done("delete", prefix, "", 0, r)
  /\ nops' = nops + 1
  /\ UNCHANGED << setting, backend, blobs, drive, outs, faults, procs >>

NextRoot == RootUpload \/ RootDeleteByPrefix

SpecRoot == InitRoot /\ [][NextRoot]_vars

(***************************************************************************)
(* Concurrent callers of GoogleDriveStorageProvider.upload: every request  *)
(* to the service is a step of its own, and the provider holds no lock     *)
(***************************************************************************)
Procs == 1..NProcs

ConcPaths    == { p_a1, p_a2 }
ConcContents == { "d1", "d2" }

Idle ==
  [ pc |-> "idle", path |-> <<>>, content |-> "", folder_path |-> <<>>,
    parent |-> root_folder_id, file_id |-> root_folder_id ]

InitConc ==
  /\ setting = Set(NameGDRIVE)
  /\ backend = get_storage_provider(setting)
  /\ blobs = [ k \in {} |-> "" ]
  /\ fs = [ k \in { <<>>, Components(base_path) } |-> DirEntry ]
  /\ drive = [ nodes |-> {}, nextId |-> root_folder_id + 1 ]
  /\ lastOp = NoOp
  /\ outs = NoOuts
  /\ nops = 0
  /\ faults = 0
  /\ procs = [ p \in Procs |-> Idle ]

\* where the walk of _resolve_path_to_folder goes after a folder is resolved
AfterFolder(rest) == IF rest = <<>> THEN "leaf_list" ELSE "folder_list"

\* a caller enters upload(path, content), for the first time or after its
\* earlier call has returned: _resolve_path_to_folder splits
CallUpload(p) ==
  /\ procs[p].pc \in { "idle", "done", "raised" } /\ nops < MaxOps
  /\ nops' = nops + 1
  /\ \E path \in ConcPaths, content \in ConcContents :
       LET parts == split(strip(path))
           fp    == SubSeq(parts, 1, Len(parts) - 1)
       IN  procs' = [ procs EXCEPT ![p] =
                        [ pc |-> AfterFolder(fp), path |-> path,
                          content |-> content, folder_path |-> fp,
                          parent |-> root_folder_id, file_id |-> root_folder_id ] ]
  /\ UNCHANGED << backend, blobs, fs, drive, lastOp, faults, setting, outs >>

\* _get_or_create_folder: the files().list request and the test of its result
FolderList(p) ==
  /\ procs[p].pc = "folder_list"
  /\ LET me    == procs[p]
         files == list_folders(drive, Head(me.folder_path), me.parent)
     IN  IF files # {}
         THEN \E n \in files :
                procs' = [ procs EXCEPT ![p] =
                             [ me EXCEPT !.parent = n.id,
                                         !.folder_path = Tail(me.folder_path),
                                         !.pc = AfterFolder(Tail(me.folder_path)) ] ]
         ELSE procs' = [ procs EXCEPT ![p] = [ me EXCEPT !.pc = "folder_create" ] ]
  /\ UNCHANGED << backend, blobs, fs, drive, lastOp, nops, faults, setting, outs >>

\* _get_or_create_folder: the files().create request of the else branch
FolderCreate(p) ==
  /\ procs[p].pc = "folder_create"
  /\ LET me == procs[p]
     IN  /\ drive' = create(drive, Head(me.folder_path), me.parent, TRUE, "")
         /\ procs' = [ procs EXCEPT ![p] =
                         [ me EXCEPT !.parent = drive.nextId,
                                     !.folder_path = Tail(me.folder_path),
                                     !.pc = AfterFolder(Tail(me.folder_path)) ] ]
  /\ UNCHANGED << backend, blobs, fs, lastOp, nops, faults, setting, outs >>

FileName(path) == LET parts == split(strip(path)) IN parts[Len(parts)]

\* upload: the files().list request for the leaf and the test of its result
LeafList(p) ==
  /\ procs[p].pc = "leaf_list"
  /\ LET me    == procs[p]
         files == list_files(drive, FileName(me.path), me.parent)
     IN  IF files # {}
         THEN \E n \in files :
                procs' = [ procs EXCEPT ![p] =
                             [ me EXCEPT !.file_id = n.id, !.pc = "leaf_update" ] ]
         ELSE procs' = [ procs EXCEPT ![p] = [ me EXCEPT !.pc = "leaf_create" ] ]
  /\ UNCHANGED << backend, blobs, fs, drive, lastOp, nops, faults, setting, outs >>

\* upload: the files().update request; it raises for a folder
LeafUpdate(p) ==
  /\ procs[p].pc = "leaf_update"
  /\ LET me == procs[p]
     IN  IF \E n \in drive.nodes : n.id = me.file_id /\ ~n.folder
         THEN /\ drive' = update(drive, me.file_id, me.content)
              /\ procs' = [ procs EXCEPT ![p] = [ me EXCEPT !.pc = "done" ] ]
         ELSE /\ drive' = drive
              /\ procs' = [ procs EXCEPT ![p] = [ me EXCEPT !.pc = "raised" ] ]
  /\ UNCHANGED << backend, blobs, fs, lastOp, nops, faults, setting, outs >>

\* upload: the files().create request for the leaf
LeafCreate(p) ==
  /\ procs[p].pc = "leaf_create"
  /\ LET me == procs[p]
     IN  /\ drive' = create(drive, FileName(me.path), me.parent, FALSE, me.content)
         /\ procs' = [ procs EXCEPT ![p] = [ me EXCEPT !.pc = "done" ] ]
  /\ UNCHANGED << backend, blobs, fs, lastOp, nops, faults, setting, outs >>

NextConc ==
  \E p \in Procs :
    \/ CallUpload(p) \/ FolderList(p) \/ FolderCreate(p)
    \/ LeafList(p) \/ LeafUpdate(p) \/ LeafCreate(p)

SpecConc == InitConc /\ [][NextConc]_vars

(***************************************************************************)
(* Concurrent uploads to Drive, and a delete_by_prefix that runs alone     *)
(* once every upload that was called has returned                          *)
(***************************************************************************)
ConcPrefixes == { p_a }

\* delete_by_prefix(prefix) with no other caller inside the provider
ConcDeleteByPrefix ==
  /\ \A p \in Procs : procs[p].pc \in { "done", "raised" }
  /\ nops < MaxOps
  /\ \E prefix \in ConcPrefixes :
       \E r \in gdrive_delete_by_prefix(drive, prefix, 0) :
         /\ drive' = r.st
         /\ lastOp' = Done("delete", prefix, "", 0, r)
  /\ nops' = nops + 1
  /\ UNCHANGED << setting, backend, blobs, fs, outs, faults, procs >>

NextConcDelete == NextConc \/ ConcDeleteByPrefix

SpecConcDelete == InitConc /\ [][NextConcDelete]_vars

(***************************************************************************)
(* Concurrent callers of LocalStorageProvider.upload and a reader of the   *)
(* files: every system call is a step of its own, and nothing is locked    *)
(***************************************************************************)
IdleLocal == [ pc |-> "idle", path |-> <<>>, content |-> "", before |-> {} ]

InitLocal ==
  /\ setting = Set(NameLOCAL)
  /\ backend = get_storage_provider(setting)
  /\ blobs = [ k \in {} |-> "" ]
  /\ fs = LocalStorageProvider([ k \in { <<>> } |-> DirEntry ])
  /\ drive = [ nodes |-> {}, nextId |-> root_folder_id + 1 ]
  /\ lastOp = NoOp
  /\ outs = NoOuts
  /\ nops = 0
  /\ faults = 0
  /\ procs = [ p \in Procs |-> IdleLocal ]

\* a caller enters upload(path, content); before is what path holds then
LocalCall(p) ==
  /\ procs[p].pc = "idle"
  /\ \E path \in ConcPaths, content \in ConcContents :
       procs' = [ procs EXCEPT ![p] =
                    [ pc |-> "exists", path |-> path, content |-> content,
                      before |-> Read(path) ] ]
  /\ UNCHANGED << setting, backend, blobs, fs, drive, lastOp, outs, nops, faults >>

\* if not os.path.exists(directory)
LocalExists(p) ==
  /\ procs[p].pc = "exists"
  /\ LET me        == procs[p]
         directory == dirname(join(base_path, me.path))
     IN  procs' = [ procs EXCEPT ![p] =
                      [ me EXCEPT !.pc = IF exists(fs, directory) THEN "open"
                                         ELSE "makedirs" ] ]
  /\ UNCHANGED << setting, backend, blobs, fs, drive, lastOp, outs, nops, faults >>

\* os.makedirs(directory): it raises when directory has appeared meanwhile
LocalMakedirs(p) ==
  /\ procs[p].pc = "makedirs"
  /\ LET me        == procs[p]
         directory == dirname(join(base_path, me.path))
     IN  IF makedirs_raises(fs, directory)
         THEN /\ fs' = makedirs_raised(fs, directory)
              /\ procs' = [ procs EXCEPT ![p] = [ me EXCEPT !.pc = "raised" ] ]
         ELSE /\ fs' = makedirs(fs, directory)
              /\ procs' = [ procs EXCEPT ![p] = [ me EXCEPT !.pc = "open" ] ]
  /\ UNCHANGED << setting, backend, blobs, drive, lastOp, outs, nops, faults >>

\* open(full_path, 'wb'): the file is created, or truncated to no content
LocalOpen(p) ==
  /\ procs[p].pc = "open"
  /\ LET me        == procs[p]
         full_path == join(base_path, me.path)
     IN  IF open_raises(fs, full_path)
         THEN /\ fs' = fs
              /\ procs' = [ procs EXCEPT ![p] = [ me EXCEPT !.pc = "raised" ] ]
         ELSE /\ fs' = write_file(fs, full_path, "")
              /\ procs' = [ procs EXCEPT ![p] = [ me EXCEPT !.pc = "write" ] ]
  /\ UNCHANGED << setting, backend, blobs, drive, lastOp, outs, nops, faults >>

\* f.write(content) and the close at the end of the with block
LocalWrite(p) ==
  /\ procs[p].pc = "write"
  /\ LET me == procs[p]
     IN  /\ fs' = write_file(fs, join(base_path, me.path), me.content)
         /\ procs' = [ procs EXCEPT ![p] = [ me EXCEPT !.pc = "done" ] ]
  /\ UNCHANGED << setting, backend, blobs, drive, lastOp, outs, nops, faults >>

\* a reader opens a stored file and reads it; lastOp keeps what it saw
ReadFile ==
  /\ \E path \in ConcPaths :
       /\ isfile(fs, join(base_path, path))
       /\ lastOp' = [ NoOp EXCEPT !.op = "read", !.path = path,
                                  !.content = fs[Components(join(base_path, path))].content ]
  /\ lastOp' # lastOp
  /\ UNCHANGED << setting, backend, blobs, fs, drive, outs, nops, faults, procs >>

NextLocal ==
  \/ \E p \in Procs :
       \/ LocalCall(p) \/ LocalExists(p) \/ LocalMakedirs(p)
       \/ LocalOpen(p) \/ LocalWrite(p)
  \/ ReadFile

SpecLocal == InitLocal /\ [][NextLocal]_vars

(***************************************************************************)
(* One provider of each kind, a flat one (GCS) and the two tree ones, each *)
(* on its own empty store and given the same calls one after the other;    *)
(* outs keeps, for each provider, whether its last call returned           *)
(***************************************************************************)
EqProviders == { "GCS", "LOCAL", "GDRIVE" }

\* normalized paths, and prefixes that end where a segment of them ends
EqPaths    == { p_ab1, p_ab2, p_abc3, p_ab }
EqPrefixes == { p_a, p_ab, p_ab1 }

InitEquiv ==
  /\ setting = Unset
  /\ backend = "EACH"
  /\ blobs = [ k \in {} |-> "" ]
  /\ fs = LocalStorageProvider([ k \in { <<>> } |-> DirEntry ])
  /\ drive = [ nodes |-> {}, nextId |-> root_folder_id + 1 ]
  /\ lastOp = NoOp
  /\ outs = [ b \in EqProviders |-> TRUE ]
  /\ nops = 0
  /\ faults = 0
  /\ procs = NoProcs

EquivUpload ==
  /\ nops < MaxOps
  /\ \E path \in EqPaths, content \in Contents :
       LET g == gcs_upload(blobs, path, content, 0)
           l == local_upload(fs, path, content, 0)
       IN  \E d \in gdrive_upload(drive, path, content, 0) :
             /\ blobs' = g.st /\ fs' = l.st /\ drive' = d.st
             /\ outs' = [ b \in EqProviders |->
                            IF b = "GCS" THEN g.ok
                            ELSE IF b = "LOCAL" THEN l.ok ELSE d.ok ]
             /\ lastOp' = [ NoOp EXCEPT !.op = "upload", !.path = path,
                                        !.content = content, !.ok = g.ok ]
  /\ nops' = nops + 1
  /\ UNCHANGED << setting, backend, faults, procs >>

EquivDeleteByPrefix ==
  /\ nops < MaxOps
  /\ \E prefix \in EqPrefixes :
       LET g == gcs_delete_by_prefix(blobs, prefix, 0)
           l == local_delete_by_prefix(fs, prefix, 0)
       IN  \E d \in gdrive_delete_by_prefix(drive, prefix, 0) :
             /\ blobs' = g.st /\ fs' = l.st /\ drive' = d.st
             /\ outs' = [ b \in EqProviders |->
                            IF b = "GCS" THEN g.ok
                            ELSE IF b = "LOCAL" THEN l.ok ELSE d.ok ]
             /\ lastOp' = [ NoOp EXCEPT !.op = "delete", !.path = prefix,
                                        !.ok = g.ok ]
  /\ nops' = nops + 1
  /\ UNCHANGED << setting, backend, faults, procs >>

NextEquiv == EquivUpload \/ EquivDeleteByPrefix

SpecEquiv == InitEquiv /\ [][NextEquiv]_vars

(***************************************************************************)
(* The factory alone: one call of get_storage_provider for every setting,  *)
(* with the media directory present or not before the call                 *)
(***************************************************************************)
InitFactory ==
  /\ setting \in Settings
  /\ backend = "NONE"
  /\ blobs = [ k \in {} |-> "" ]
  /\ fs \in { [ k \in { <<>> } |-> DirEntry ],
              [ k \in { <<>>, Components(base_path) } |-> DirEntry ] }
  /\ drive = [ nodes |-> {}, nextId |-> root_folder_id + 1 ]
  /\ lastOp = NoOp
  /\ outs = NoOuts
  /\ nops = 0
  /\ faults = 0
  /\ procs = NoProcs

GetStorageProvider ==
  /\ backend = "NONE"
  /\ backend' = get_storage_provider(setting)
  /\ fs' = IF backend' = "LOCAL" THEN LocalStorageProvider(fs) ELSE fs
  /\ nops' = nops + 1
  /\ UNCHANGED << setting, blobs, drive, lastOp, outs, faults, procs >>

SpecFactory == InitFactory /\ [][GetStorageProvider]_vars

(***************************************************************************)
(* Properties                                                              *)
(***************************************************************************)
\* the segments of a path as the storage contract normalizes it: leading and
\* trailing slashes stripped, empty segments dropped
NormSegs(path) == SelectSeq(split(path), NonEmpty)

HasLeaf(path) == NormSegs(path) # <<>>

\* the intermediate folders of path, as the backend addresses them, exist
FoldersExistIn(b, f, d, path) ==
  CASE b = "LOCAL"  -> isdir(f, dirname(join(base_path, path)))
    [] b = "GDRIVE" ->
         folders_at(d, Parent(split(strip(path))), {root_folder_id}) # {}
    [] OTHER -> TRUE

FoldersExist(path) == FoldersExistIn(backend, fs, drive, path)

\* the folders of a tree backend
FoldersIn(b, f, d) ==
  CASE b = "LOCAL"  -> { k \in DOMAIN f : f[k].dir }
    [] b = "GDRIVE" -> { n \in d.nodes : n.folder }
    [] OTHER -> {}

\* no two Drive folders bear the same name under the same parent
DupFree(d) ==
  \A n, m \in d.nodes :
    (n.folder /\ m.folder /\ n.name = m.name /\ n.parent = m.parent) => n = m

\* C1: read-after-write. After an upload of a path with a non-empty leaf has
\* returned without error, a read of the path returns exactly the uploaded
\* content (the empty content included), and on the tree backends the
\* intermediate folders of the path exist.
C1_ReadAfterWrite ==
  (lastOp.op = "upload" /\ lastOp.ok /\ HasLeaf(lastOp.path)) =>
    /\ Read(lastOp.path) = { lastOp.content }
    /\ Tree => FoldersExist(lastOp.path)

C1_Witness ==
  /\ backend = "GDRIVE" /\ lastOp.op = "upload" /\ lastOp.ok
  /\ lastOp.creates > 0 /\ lastOp.content = ""
  /\ Read(lastOp.path) = { "" }

\* C2: idempotent overwrite. After a successful upload to a path at which an
\* earlier upload had left a record, exactly one record is at the path, with
\* the content of the later upload.
C2_IdempotentOverwrite ==
  (lastOp.op = "upload" /\ lastOp.ok /\ lastOp.before # {}) =>
    /\ Cardinality(RecordsAt(lastOp.path)) = 1
    /\ Read(lastOp.path) = { lastOp.content }

C2_Witness ==
  /\ backend = "GDRIVE" /\ lastOp.op = "upload" /\ lastOp.ok
  /\ lastOp.before = { "" } /\ lastOp.content = "d1"
  /\ Cardinality(RecordsAt(lastOp.path)) = 1

\* path is prefix itself or lies below it: it starts with prefix and a '/'
Under(path, prefix) ==
  \/ path = prefix
  \/ startswith(path, IF TrailingSlash(prefix) THEN prefix
                      ELSE prefix \o << SLASH >>)

\* the folders the normalized prefix names on a tree backend
FolderNamed(prefix) ==
  CASE backend = "LOCAL" ->
         IF isdir(fs, join(base_path, strip(prefix))) /\ HasLeaf(prefix)
         THEN { Components(join(base_path, strip(prefix))) } ELSE {}
    [] backend = "GDRIVE" -> folders_at(drive, NormSegs(prefix), {root_folder_id})
    [] OTHER -> {}

\* C3: prefix delete completeness. After delete_by_prefix(pre) has returned
\* without error, no uploaded path that is pre or lies below pre is present,
\* and on the tree backends no folder named by pre is left.
C3_PrefixDeleteComplete ==
  (lastOp.op = "delete" /\ lastOp.ok) =>
    /\ \A path \in UploadPaths : Under(path, lastOp.path) => Read(path) = {}
    /\ FolderNamed(lastOp.path) = {}

\* nothing in the store matches the prefix: no object name starts with it,
\* nothing is at the filesystem path it names, no Drive node bears its names
NoMatch(prefix) ==
  CASE backend = "GCS"   -> ~\E k \in DOMAIN blobs : startswith(k, lstrip(prefix))
    [] backend = "AZURE" -> ~\E k \in DOMAIN blobs : startswith(k, prefix)
    [] backend = "LOCAL" -> Components(join(base_path, prefix)) \notin DOMAIN fs
    [] backend = "GDRIVE" -> nodes_at(drive, split(strip(prefix))) = {}

\* C4: no-op on a missing prefix. A delete_by_prefix whose prefix matches
\* nothing, and none of whose backend calls fails, returns without raising,
\* issues no delete and leaves the store as it was.
C4_NoOpOnMissingPrefix ==
  [][ (lastOp'.op = "delete" /\ lastOp'.failAt = 0 /\ NoMatch(lastOp'.path)) =>
        /\ lastOp'.ok
        /\ lastOp'.deletes = 0
        /\ blobs' = blobs /\ fs' = fs /\ drive' = drive ]_vars

C4_Witness ==
  /\ lastOp.op = "delete" /\ lastOp.ok /\ lastOp.path = p_np
  /\ lastOp.deletes = 0 /\ lastOp.calls > 0
  /\ Read(p_ab1) # {}

\* C5: no duplicate folders under concurrency. In every state of every
\* interleaving of concurrent uploads, at most one Drive folder of a given
\* name exists under a given parent.
C5_NoDuplicateFolders == DupFree(drive)

\* C6: folder reuse. An upload on a tree backend whose intermediate folders
\* exist already issues no folder-create call and leaves the set of folders
\* as it was; after any sequential upload no two folders share a name and a
\* parent, so two uploads into x/y leave one x and one y.
C6_FolderReuse ==
  [][ (lastOp'.op = "upload" /\ Tree) =>
        /\ DupFree(drive')
        /\ lastOp'.ok => FoldersExistIn(backend, fs', drive', lastOp'.path)
        /\ FoldersExist(lastOp'.path) =>
             /\ lastOp'.creates = 0
             /\ FoldersIn(backend, fs', drive') = FoldersIn(backend, fs, drive)
    ]_vars

C6_Witness ==
  /\ backend = "GDRIVE" /\ lastOp.op = "upload" /\ lastOp.ok
  /\ lastOp.path = p_ab2 /\ lastOp.creates = 0 /\ lastOp.before = {}
  /\ Read(p_ab1) # {} /\ Read(p_ab2) # {}
  /\ Cardinality(FoldersIn(backend, fs, drive)) = 2

\* no folder and no segment of an object name is the empty string
NoEmptyNames ==
  /\ \A k \in DOMAIN blobs : \A i \in 1..Len(split(k)) : split(k)[i] # <<>>
  /\ \A n \in drive.nodes : n.name # <<>>

\* C7: path normalization. After a successful upload, every path with the
\* same normalized segments addresses the uploaded record, and nothing with
\* an empty name has been stored.
C7_PathNormalization ==
  (lastOp.op = "upload" /\ lastOp.ok) =>
    /\ \A q \in UploadPaths :
         NormSegs(q) = NormSegs(lastOp.path) => Read(q) = { lastOp.content }
    /\ NoEmptyNames

\* the stores a failure-free delete_by_prefix(prefix) may leave from here
AfterDelete(prefix) ==
  CASE backend = "GCS"    -> { gcs_delete_by_prefix(blobs, prefix, 0).st }
    [] backend = "AZURE"  -> { azure_delete_by_prefix(blobs, prefix, 0).st }
    [] backend = "LOCAL"  -> { local_delete_by_prefix(fs, prefix, 0).st }
    [] backend = "GDRIVE" ->
         { r.st : r \in gdrive_delete_by_prefix(drive, prefix, 0) }

\* C8: the trailing delimiter is optional. From every store state,
\* delete_by_prefix(pre) and delete_by_prefix(pre + "/") leave the same store.
C8_TrailingDelimiterOptional ==
  \A prefix \in Prefixes :
    ~TrailingSlash(prefix) =>
      AfterDelete(prefix) = AfterDelete(prefix \o << SLASH >>)

\* C9: errors are never swallowed. An operation one of whose backend calls
\* failed does not return success.
C9_ErrorsNeverSwallowed == lastOp.failed => ~lastOp.ok

\* C10: a prefix that is an exact leaf. When the prefix is the path of a
\* record (a read of it finds the record), a delete_by_prefix that returns
\* without error and without a failed backend call removes that record and
\* leaves every record at another normalized path as it was.
C10_ExactLeafDeleted ==
  [][ (/\ lastOp'.op = "delete" /\ lastOp'.ok /\ ~lastOp'.failed
       /\ RecordsAt(lastOp'.path) # {}) =>
        /\ RecordsIn(backend, blobs', fs', drive', lastOp'.path) = {}
        /\ \A q \in UploadPaths :
             NormSegs(q) # NormSegs(lastOp'.path) =>
               RecordsIn(backend, blobs', fs', drive', q) = RecordsAt(q)
    ]_vars

\* C11: an invalid path is rejected. An upload of a path that normalizes to
\* an empty leaf (the empty path) raises and leaves the store as it was: no record
\* and no folder with an empty name is created.
C11_InvalidPathRejected ==
  [][ (lastOp'.op = "upload" /\ ~HasLeaf(lastOp'.path)) =>
        /\ ~lastOp'.ok
        /\ blobs' = blobs /\ fs' = fs /\ drive' = drive ]_vars

\* the callers of SpecLocal that are inside upload
InUpload == { p \in Procs : procs[p].pc \notin { "idle", "done", "raised" } }

\* C12: atomic overwrite. While one upload(p, c2) over a record of content c1
\* (an uploaded content, complete when the upload was called) is in progress
\* and no other upload is, a reader of p sees c1 or c2, never an empty,
\* truncated or mixed content.
C12_AtomicOverwrite ==
  [][ (/\ lastOp' # lastOp /\ lastOp'.op = "read"
       /\ \E q \in Procs : /\ InUpload = { q }
                           /\ procs[q].path = lastOp'.path
                           /\ procs[q].before # {}
                           /\ procs[q].before \subseteq ConcContents) =>
        \A q \in InUpload :
          lastOp'.content \in procs[q].before \cup { procs[q].content } ]_vars

\* x and y are the same character, or the two cases of one letter
SameLetter(x, y) ==
  x = y \/ \E i \in DOMAIN Lower : { x, y } = { Lower[i], Upper[i] }

EqualsIgnoringCase(v, name) ==
  Len(v) = Len(name) /\ \A i \in 1..Len(v) : SameLetter(v[i], name[i])

\* the provider the configuration table selects for a setting
Selected(s) ==
  IF ~s.set THEN "LOCAL"
  ELSE IF EqualsIgnoringCase(s.value, NameAZURE) THEN "AZURE"
  ELSE IF EqualsIgnoringCase(s.value, NameGCS) THEN "GCS"
  ELSE IF EqualsIgnoringCase(s.value, NameGDRIVE) THEN "GDRIVE"
  ELSE "LOCAL"

\* C13: backend selection. A call of get_storage_provider constructs one
\* provider: the Azure or GCS provider (flat) for AZURE or GCS, the Drive
\* provider for GDRIVE, the local provider for LOCAL and for every other or
\* absent setting, the setting being matched without regard to case. No
\* second provider is constructed: only the local provider touches the
\* filesystem, where it makes sure of its base directory.
C13_BackendSelection ==
  [][ (backend = "NONE" /\ backend' # "NONE") =>
        /\ backend' \in Backends
        /\ backend' = Selected(setting)
        /\ backend' = "LOCAL" => isdir(fs', base_path)
        /\ backend' # "LOCAL" => fs' = fs ]_vars

C13_Witness ==
  /\ setting = Set(<< "g", "C", "s" >>) /\ backend = "GCS"
  /\ ~isdir(fs, base_path)

\* the Drive leaves that bear the file name of path under the folder parent
LeavesUnder(d, parent, path) ==
  { n \in d.nodes : ~n.folder /\ n.name = FileName(path) /\ n.parent = parent }

\* C14: exactly one leaf under concurrent uploads. Once two concurrent
\* uploads to the same path, resolved to the same parent folder, have both
\* returned without error, exactly one leaf of that name is under the parent,
\* and it holds the content of one of them.
C14_OneLeafUnderConcurrentPuts ==
  \A p, q \in Procs :
    (/\ p # q /\ procs[p].pc = "done" /\ procs[q].pc = "done"
     /\ procs[p].path = procs[q].path /\ procs[p].parent = procs[q].parent) =>
      LET leaves == LeavesUnder(drive, procs[p].parent, procs[p].path)
      IN  /\ Cardinality(leaves) = 1
          /\ \A n \in leaves :
               n.content \in { procs[r].content :
                               r \in { r \in Procs : procs[r].path = procs[p].path } }

\* the delete walk of a tree backend comes to a segment that is not there:
\* nothing is at the local path, no chain of Drive folders bears the names
SegmentMissing(prefix) ==
  CASE backend = "LOCAL"  -> Components(join(base_path, prefix)) \notin DOMAIN fs
    [] backend = "GDRIVE" ->
         folders_at(drive, split(strip(prefix)), {root_folder_id}) = {}
    [] OTHER -> FALSE

\* C15: delete_by_prefix never creates anything. On the tree backends every
\* delete_by_prefix leaves no folder, file or node that was not there before;
\* when its walk comes to a missing segment, and no lookup fails, it returns
\* without error, having deleted nothing and left the store as it was.
C15_DeleteCreatesNothing ==
  [][ (lastOp'.op = "delete" /\ Tree) =>
        /\ lastOp'.creates = 0
        /\ FoldersIn(backend, fs', drive') \subseteq FoldersIn(backend, fs, drive)
        /\ DOMAIN fs' \subseteq DOMAIN fs
        /\ drive'.nodes \subseteq drive.nodes /\ drive'.nextId = drive.nextId
        /\ (SegmentMissing(lastOp'.path) /\ ~lastOp'.failed) =>
             /\ lastOp'.ok /\ lastOp'.deletes = 0
             /\ fs' = fs /\ drive' = drive ]_vars

C15_Witness ==
  /\ backend = "GDRIVE" /\ lastOp.op = "delete" /\ lastOp.path = p_abcs
  /\ lastOp.ok /\ lastOp.calls = 3 /\ lastOp.deletes = 0
  /\ Read(p_ab1) # {}
  /\ Cardinality(FoldersIn(backend, fs, drive)) = 2

\* the ids of the Drive leaves (the nodes that are no folders)
LeafIds(d) == { n.id : n \in { m \in d.nodes : ~m.folder } }

\* C16: leaf create versus update on Drive. An upload that returns without
\* error onto a path at which a leaf exists replaces the content of that leaf,
\* which keeps its id, and creates no leaf; onto a path at which no leaf
\* exists it creates one leaf, under an id no node had. An upload that raises
\* creates no leaf.
C16_LeafCreateVersusUpdate ==
  [][ (lastOp'.op = "upload" /\ backend = "GDRIVE") =>
        LET before == RecordsAt(lastOp'.path)
            after  == RecordsIn(backend, blobs', fs', drive', lastOp'.path)
        IN  /\ (lastOp'.ok /\ before # {}) =>
                 /\ { r.id : r \in after } = { r.id : r \in before }
                 /\ \A r \in after : r.content = lastOp'.content
                 /\ LeafIds(drive') = LeafIds(drive)
            /\ (lastOp'.ok /\ before = {}) =>
                 /\ Cardinality(after) = 1
                 /\ LeafIds(drive') \ LeafIds(drive) = { r.id : r \in after }
                 /\ \A r \in after : r.id \notin { n.id : n \in drive.nodes }
                 /\ LeafIds(drive) \subseteq LeafIds(drive')
            /\ ~lastOp'.ok => LeafIds(drive') = LeafIds(drive) ]_vars

C16_Witness ==
  /\ backend = "GDRIVE" /\ lastOp.op = "upload" /\ lastOp.ok
  /\ lastOp.path = p_ab1 /\ lastOp.before = { "d1" } /\ lastOp.content = ""
  /\ RecordsAt(p_ab1) = { [ id |-> 3, content |-> "" ] }
  /\ drive.nextId = 4

\* the Drive node of the given id
NodeOf(d, id) == CHOOSE n \in d.nodes : n.id = id

\* C17: tie-break on duplicate leaves. An upload that finds more than one
\* leaf of the target name under the resolved parent goes on to update one of
\* the leaves its lookup returned; the update does not fail, puts the
\* uploaded content into that leaf, leaves every other node as it was and
\* creates none.
C17_DuplicateLeafTieBreak ==
  [][ \A p \in Procs :
        LET me     == procs[p]
            leaves == LeavesUnder(drive, me.parent, me.path)
        IN  /\ (/\ me.pc = "leaf_list" /\ procs'[p].pc # "leaf_list"
                /\ Cardinality(leaves) > 1) =>
                 /\ procs'[p].pc = "leaf_update"
                 /\ procs'[p].file_id \in { n.id : n \in leaves }
                 /\ drive' = drive
            /\ (/\ me.pc = "leaf_update" /\ procs'[p].pc # "leaf_update"
                /\ Cardinality(leaves) > 1
                /\ me.file_id \in { n.id : n \in leaves }) =>
                 /\ procs'[p].pc = "done"
                 /\ drive'.nextId = drive.nextId
                 /\ { n.id : n \in drive'.nodes } = { n.id : n \in drive.nodes }
                 /\ \A n \in drive.nodes : n.id # me.file_id => n \in drive'.nodes
                 /\ NodeOf(drive', me.file_id) =
                      [ NodeOf(drive, me.file_id) EXCEPT !.content = me.content ]
    ]_vars

C17_Witness ==
  \E p \in Procs :
    LET me     == procs[p]
        leaves == LeavesUnder(drive, me.parent, me.path)
    IN  /\ me.pc = "done" /\ me.file_id # root_folder_id /\ me.content = "d2"
        /\ Cardinality(leaves) = 2
        /\ { n.content : n \in leaves } = { "d1", "d2" }
        /\ NodeOf(drive, me.file_id).content = "d2"
        /\ \A q \in Procs \ {p} : procs[q].content = "d1" /\ procs[q].pc = "done"
                                  /\ procs[q].file_id = root_folder_id

\* the prefix a flat provider hands to the listing of its store
ListedPrefix(prefix) == IF backend = "GCS" THEN lstrip(prefix) ELSE prefix

\* C18: partial failure of a flat delete. When the request that deletes the
\* k-th matched key fails, delete_by_prefix raises; the k-1 matched keys that
\* come first in the listing are gone, and every other key, the later matched
\* ones included, is there with its content.
C18_FlatDeletePartialFailure ==
  [][ (/\ lastOp'.op = "delete" /\ backend \in { "GCS", "AZURE" }
       /\ lastOp'.failAt >= 2) =>
        LET matched == { key \in DOMAIN blobs :
                           startswith(key, ListedPrefix(lastOp'.path)) }
            gone    == DOMAIN blobs \ DOMAIN blobs'
            k       == lastOp'.failAt - 1
        IN  /\ ~lastOp'.ok
            /\ k <= Cardinality(matched)
            /\ gone \subseteq matched /\ Cardinality(gone) = k - 1
            /\ \A g \in gone, m \in matched \ gone : strless(g, m)
            /\ DOMAIN blobs' \subseteq DOMAIN blobs
            /\ \A key \in DOMAIN blobs' : blobs'[key] = blobs[key] ]_vars

C18_Witness ==
  /\ backend = "AZURE" /\ lastOp.op = "delete" /\ lastOp.path = p_ab
  /\ lastOp.failAt = 3 /\ ~lastOp.ok /\ lastOp.failed
  /\ DOMAIN blobs = { p_ab2 }

\* the contents a read of path returns on the provider b of SpecEquiv
ReadOn(b, path) == { r.content : r \in RecordsIn(b, blobs, fs, drive, path) }

\* C19: backend equivalence. After every sequence of uploads and
\* delete_by_prefix calls with normalized, segment-aligned arguments, given
\* to a flat and to each tree provider on empty stores, the last call has
\* returned or raised alike on all of them and every path reads the same.
C19_BackendEquivalence ==
  \A b \in { "LOCAL", "GDRIVE" } :
    /\ outs[b] = outs["GCS"]
    /\ \A q \in EqPaths : ReadOn(b, q) = ReadOn("GCS", q)

\* path lies outside prefix: its normalized segments do not begin with those
\* of prefix, so it neither is the normalized prefix nor begins with it and '/'
Outside(path, prefix) == ~IsPrefixOf(NormSegs(prefix), NormSegs(path))

\* C20: delete_by_prefix removes nothing outside the prefix. After every
\* delete_by_prefix, on every backend, each record at a path outside the
\* prefix is present as before, with its content.
C20_DeleteKeepsOutside ==
  [][ lastOp'.op = "delete" =>
        \A q \in UploadPaths :
          Outside(q, lastOp'.path) =>
            RecordsIn(backend, blobs', fs', drive', q) = RecordsAt(q) ]_vars

\* C21: delete completeness after racing uploads. When every concurrent
\* upload has returned and delete_by_prefix(pre) then runs alone and returns
\* without error, no record is left at any uploaded path under pre, whatever
\* same-named sibling folders the race has made.
C21_DeleteAfterRacingPuts ==
  [][ (/\ lastOp' # lastOp /\ lastOp'.op = "delete" /\ lastOp'.ok
       /\ \A p \in Procs : procs[p].pc \in { "done", "raised" }) =>
        \A path \in ConcPaths :
          Under(path, lastOp'.path) =>
            RecordsIn(backend, blobs', fs', drive', path) = {} ]_vars

\* the filesystem entries a step creates, overwrites or removes
Touched(f, g) ==
  { k \in DOMAIN f \cup DOMAIN g :
      \/ k \notin DOMAIN f
      \/ k \notin DOMAIN g
      \/ f[k] # g[k] }

\* entry k lies strictly beneath the root directory base_path
BeneathRoot(k) ==
  IsPrefixOf(Components(base_path), k) /\ k # Components(base_path)

\* C22: local root containment. Whatever path or prefix upload and
\* delete_by_prefix of the local provider are given, every filesystem entry
\* the call creates, overwrites or removes lies strictly beneath base_path,
\* and base_path is still a directory afterwards.
C22_LocalRootContainment ==
  [][ (backend = "LOCAL" /\ lastOp' # lastOp) =>
        /\ \A k \in Touched(fs, fs') : BeneathRoot(k)
        /\ isdir(fs', base_path) ]_vars

\* the two callers have returned from uploads to different leaves of one
\* directory
SiblingUploadsOver(p, q) ==
  /\ p # q
  /\ procs[p].pc \in { "done", "raised" }
  /\ procs[q].pc \in { "done", "raised" }
  /\ procs[p].path # procs[q].path
  /\ dirname(join(base_path, procs[p].path)) =
       dirname(join(base_path, procs[q].path))

\* C23: concurrent local uploads into a missing directory. When two upload
\* calls of the local provider to different leaves of one directory, which
\* did not exist before them, have run in any interleaving of their steps,
\* both have returned success and each file is there with its own content.
C23_ConcurrentLocalUploads ==
  \A p, q \in Procs :
    SiblingUploadsOver(p, q) =>
      /\ procs[p].pc = "done"
      /\ procs[q].pc = "done"
      /\ Read(procs[p].path) = { procs[p].content }
      /\ Read(procs[q].path) = { procs[q].content }

====
